---- MODULE Spec2Model ----
(***************************************************************************)
(* A model of transcripcion.py: the module-level configuration loading     *)
(* (load_dotenv and the check of the three required settings), the         *)
(* command-line entry point, and main's pipeline                           *)
(* extraer_audio -> subir_a_gcs -> transcribir_audio_largo ->              *)
(* guardar_transcripcion -> os.remove.                                     *)
(*                                                                         *)
(* Python strings whose contents matter (lines of the settings file,       *)
(* environment keys and values, transcripts) are sequences of one-         *)
(* character strings.  Python's None is the value None below.             *)
(***************************************************************************)
EXTENDS Naturals, Sequences, FiniteSets, TLC

VARIABLES
    pc,                   \* position of the process in the script
    environ,              \* os.environ: a function from keys to values
    line,                 \* load_dotenv: the line last read from the settings file
    lineno,               \* load_dotenv: number of lines read so far
    GCP_PROJECT_ID,       \* module globals read at lines 26-28
    GCS_BUCKET_NAME,
    AUDIO_LANGUAGE_CODE,
    argv,                 \* sys.argv
    videoOnDisk,          \* whether the path argv[1] names exists
    outputsDir,           \* the directory "outputs": "absent", "existing" or "created"
    audioOnDisk,          \* whether the extracted audio file is on disk
    txtFile,              \* contents of the transcript file, NoFile when absent
    video,                \* the VideoFileClip: "unopened", "open" or "closed"
    audio_file,           \* main's locals
    gcs_uri,
    texto_transcrito,
    operation,            \* the recognition job: "none", "rejected", "timed out" or "completed"
    response,             \* response.results of a completed job, <<>> before
    bucket,               \* whether the audio object is in the GCS bucket
    stdout,               \* the messages printed so far, in order
    exc,                  \* the call site of an exception nobody caught, NoExc when none
    exitStatus            \* <<status>> once the process has exited, <<>> while it runs

envVars  == <<environ, line, lineno>>
confVars == <<GCP_PROJECT_ID, GCS_BUCKET_NAME, AUDIO_LANGUAGE_CODE>>
diskVars == <<videoOnDisk, outputsDir, audioOnDisk, txtFile>>
mainVars == <<video, audio_file, gcs_uri, texto_transcrito, operation, response, bucket>>
vars == <<pc, environ, line, lineno, GCP_PROJECT_ID, GCS_BUCKET_NAME,
          AUDIO_LANGUAGE_CODE, argv, videoOnDisk, outputsDir, audioOnDisk,
          txtFile, video, audio_file, gcs_uri, texto_transcrito, operation,
          response, bucket, stdout, exc, exitStatus>>

\* None and NoFile are one-element tuples, which no string (a tuple of
\* characters) equals
None   == <<"None">>
NoFile == <<"NoFile">>
NoExc  == "NoExc"

(***************************************************************************)
(* Bounds of the model.                                                    *)
(***************************************************************************)
MaxLineLen      == 3   \* characters in a line of the settings file
MaxLines        == 1   \* lines read from a settings file of arbitrary lines
MaxSampleLines  == 2   \* lines read from a settings file of sample lines
MaxSegments     == 2   \* result segments in a recognition response
MaxAlternatives == 2   \* alternatives in a result segment

(***************************************************************************)
(* str methods used by load_dotenv.                                        *)
(***************************************************************************)
Whitespace == {" ", "\t", "\n"}
Quotes     == {"\"", "'"}

RECURSIVE lstrip(_, _)
lstrip(s, chars) ==
    IF s # <<>> /\ s[1] \in chars THEN lstrip(Tail(s), chars) ELSE s

RECURSIVE rstrip(_, _)
rstrip(s, chars) ==
    IF s # <<>> /\ s[Len(s)] \in chars
    THEN rstrip(SubSeq(s, 1, Len(s) - 1), chars)
    ELSE s

\* s.strip(chars); s.strip() is strip(s, Whitespace)
strip(s, chars) == rstrip(lstrip(s, chars), chars)

\* c in s
Contains(s, c) == \E i \in 1..Len(s) : s[i] = c

\* s.split(c, 1) for a string that contains c
split(s, c) ==
    LET i == CHOOSE j \in 1..Len(s) :
                 s[j] = c /\ \A k \in 1..(j - 1) : s[k] # c
    IN  <<SubSeq(s, 1, i - 1), SubSeq(s, i + 1, Len(s))>>

\* line 16: the lines load_dotenv takes for an assignment
IsAssignment(stripped) ==
    stripped # <<>> /\ stripped[1] # "#" /\ Contains(stripped, "=")

\* lines 17-19: the key and the value of an assignment line
ParseKey(stripped)   == strip(split(stripped, "=")[1], Whitespace)
ParseValue(stripped) == strip(strip(split(stripped, "=")[2], Whitespace), Quotes)

\* a faulty variant of setdefault: plain assignment os.environ[key] = value
setdefault_overwrite(env, key, value) ==
    [k \in DOMAIN env \cup {key} |-> IF k = key THEN value ELSE env[k]]

\* line 20: os.environ.setdefault(key, value)
setdefault(env, key, value) ==
    IF key \in DOMAIN env
    THEN env
    ELSE [k \in DOMAIN env \cup {key} |-> IF k = key THEN value ELSE env[k]]

\* line 20: putenv refuses the empty name (OSError, EINVAL)
PutenvFails(env, key) == key \notin DOMAIN env /\ key = <<>>

\* lines 15-20: the body of the loop for one line read from the file
ProcessLine(env, raw) ==
    LET stripped == strip(raw, Whitespace) IN
    IF ~IsAssignment(stripped)
    THEN [environ |-> env, raised |-> FALSE]
    ELSE IF PutenvFails(env, ParseKey(stripped))
         THEN [environ |-> env, raised |-> TRUE]
         ELSE [environ |-> setdefault(env, ParseKey(stripped), ParseValue(stripped)),
               raised  |-> FALSE]

(***************************************************************************)
(* The settings file and the initial environment.                          *)
(***************************************************************************)
\* the names of the three required settings (lines 26-28)
KeyProject  == <<"G", "C", "P", "_", "P", "R", "O", "J", "E", "C", "T", "_", "I", "D">>
KeyBucket   == <<"G", "C", "S", "_", "B", "U", "C", "K", "E", "T", "_", "N", "A", "M", "E">>
KeyLanguage == <<"A", "U", "D", "I", "O", "_", "L", "A", "N", "G", "U", "A", "G", "E", "_", "C", "O", "D", "E">>

\* every line of at most MaxLineLen characters over a small alphabet
Chars == {"A", "=", "#", " ", "'"}
Lines == UNION {[1..n -> Chars] : n \in 0..MaxLineLen}

\* lines of a realistic settings file: assignments of the required settings
\* (bare, padded, quoted, empty), a comment, a blank line, a line with no key
SampleLines ==
    { KeyProject \o <<"=", "p">>,
      <<" ">> \o KeyBucket \o <<" ", "=", " ", "'", "b", "'">>,
      KeyLanguage \o <<"=", "\"", "e", "s", "\"", "\n">>,
      KeyLanguage \o <<"=", "\n">>,
      <<"#", " ", "c", "=", "1">>,
      <<"\n">>,
      <<"=", "p">> }

\* environments the process may start in, over short names
ShortEnvirons ==
    { [k \in {} |-> <<>>],
      [k \in {<<"A">>} |-> <<>>],
      [k \in {<<"A">>} |-> <<"A">>],
      [k \in {<<"A">>, <<"A", "A">>} |-> k] }

\* environments the process may start in, over the required settings
RequiredEnvirons ==
    { [k \in {} |-> <<>>],
      [k \in {KeyProject, KeyBucket} |-> <<"x">>],
      [k \in {KeyProject, KeyBucket, KeyLanguage} |-> <<"x">>],
      [k \in {KeyProject, KeyBucket, KeyLanguage} |->
          IF k = KeyLanguage THEN <<>> ELSE <<"x">>] }

\* the state of the process when the interpreter starts the script
Start(environs) ==
    /\ pc = "load_dotenv"
    /\ environ \in environs
    /\ line = <<>>
    /\ lineno = 0
    /\ GCP_PROJECT_ID = None
    /\ GCS_BUCKET_NAME = None
    /\ AUDIO_LANGUAGE_CODE = None
    /\ argv \in {<<"transcripcion.py">>, <<"transcripcion.py", "clip.mp4">>}
    /\ videoOnDisk \in BOOLEAN
    /\ outputsDir \in {"absent", "existing"}
    /\ audioOnDisk = FALSE
    /\ txtFile = NoFile
    /\ video = "unopened"
    /\ audio_file = None
    /\ gcs_uri = None
    /\ texto_transcrito = None
    /\ operation = "none"
    /\ response = <<>>
    /\ bucket = FALSE
    /\ stdout = <<>>
    /\ exc = NoExc
    /\ exitStatus = <<>>

Init    == Start(RequiredEnvirons)
InitEnv == Start(ShortEnvirons) /\ Len(argv) = 2 /\ videoOnDisk /\ outputsDir = "absent"

(***************************************************************************)
(* Module level: load_dotenv() and the configuration check.                *)
(***************************************************************************)
\* lines 14-20: one iteration of the loop, on a line drawn from source, in a
\* file of at most limit lines
ReadLineFrom(source, limit) ==
    /\ pc = "load_dotenv"
    /\ lineno < limit
    /\ \E raw \in source :
          LET r == ProcessLine(environ, raw) IN
          /\ line' = raw
          /\ lineno' = lineno + 1
          /\ environ' = r.environ
          /\ pc' = IF r.raised THEN "raised" ELSE "load_dotenv"
          /\ exc' = IF r.raised THEN "os.environ.setdefault" ELSE exc
    /\ UNCHANGED <<confVars, argv, diskVars, mainVars, stdout, exitStatus>>

ReadSettingsLine == ReadLineFrom(SampleLines, MaxSampleLines)
ReadAnyLine      == ReadLineFrom(Lines, MaxLines)

\* lines 12-14: no settings file, or no line left: load_dotenv returns
EndOfFile ==
    /\ pc = "load_dotenv"
    /\ pc' = "config"
    /\ line' = <<>>
    /\ lineno' = 0
    /\ UNCHANGED <<environ, confVars, argv, diskVars, mainVars, stdout, exc, exitStatus>>

\* os.getenv(key)
getenv(env, key) == IF key \in DOMAIN env THEN env[key] ELSE None

\* truth value of a str or None: None and the empty string are falsy
Truthy(v) == v # None /\ v # <<>>

\* a faulty variant of all_set: only absence counts as missing
all_set_present(values) == \A i \in 1..Len(values) : values[i] # None

\* line 31: all([...])
all_set(values) == \A i \in 1..Len(values) : Truthy(values[i])

\* lines 26-34: read the three settings, exit with status 1 when one is missing
ConfigCheck ==
    /\ pc = "config"
    /\ GCP_PROJECT_ID' = getenv(environ, KeyProject)
    /\ GCS_BUCKET_NAME' = getenv(environ, KeyBucket)
    /\ AUDIO_LANGUAGE_CODE' = getenv(environ, KeyLanguage)
    /\ IF all_set(<<GCP_PROJECT_ID', GCS_BUCKET_NAME', AUDIO_LANGUAGE_CODE'>>)
       THEN /\ pc' = "argcheck"
            /\ UNCHANGED <<stdout, exitStatus>>
       ELSE /\ pc' = "exited"
            /\ stdout' = Append(stdout, "Error: Faltan variables")
            /\ exitStatus' = <<1>>
    /\ UNCHANGED <<envVars, argv, diskVars, mainVars, exc>>

\* lines 174-179: the usage check, then the call of main
ArgCheck ==
    /\ pc = "argcheck"
    /\ IF Len(argv) < 2
       THEN /\ pc' = "exited"
            /\ stdout' = Append(stdout, "Uso:")
            /\ exitStatus' = <<1>>
       ELSE /\ pc' = "main"
            /\ UNCHANGED <<stdout, exitStatus>>
    /\ UNCHANGED <<envVars, confVars, argv, diskVars, mainVars, exc>>

\* the interpreter ends the process: status 0 after main returned, status 1
\* (and a traceback) when an exception reached the top level
ProcessExit ==
    /\ pc \in {"returned", "raised"}
    /\ pc' = "exited"
    /\ exitStatus' = IF pc = "raised" THEN <<1>> ELSE <<0>>
    /\ UNCHANGED <<envVars, confVars, argv, diskVars, mainVars, stdout, exc>>

NextEnv == ReadAnyLine \/ EndOfFile \/ ConfigCheck \/ ProcessExit
SpecEnv == InitEnv /\ [][NextEnv]_vars

(***************************************************************************)
(* main and its four steps.  Each step is one action: the call, the        *)
(* step's whole body with the outcome of its library calls chosen          *)
(* nondeterministically, and main's check of the value returned.           *)
(***************************************************************************)
Emit(msgs) == stdout' = stdout \o msgs

\* a faulty variant of ReturnIfNot: only None stops main, as in "if value is None"
ReturnIfNot_is_none(value, next) == IF value # None THEN next ELSE "returned"

\* a faulty variant of ReturnIfNot: main goes on whatever the step returned
ReturnIfNot_never(value, next) == next

\* lines 147-148, 152-153, 157-158: if not value: return
ReturnIfNot(value, next) == IF Truthy(value) THEN next ELSE "returned"

\* line 139: os.makedirs("outputs", exist_ok=True)
makedirs(dir) == IF dir = "absent" THEN "created" ELSE dir

\* lines 139-143: create the output directory, check that the video exists
main ==
    /\ pc = "main"
    /\ outputsDir' = makedirs(outputsDir)
    /\ IF videoOnDisk
       THEN /\ pc' = "extraer_audio"
            /\ UNCHANGED stdout
       ELSE /\ pc' = "returned"
            /\ Emit(<<"Error: El archivo de video no se encuentra">>)
    /\ UNCHANGED <<envVars, confVars, argv, videoOnDisk, audioOnDisk, txtFile,
                   mainVars, exc, exitStatus>>

\* lines 45-47 and 70: the audio path and the URI for the video clip.mp4
AudioPath == <<"o", "u", "t", "p", "u", "t", "s", "/", "c", "l", "i", "p", ".", "m", "p", "3">>
AudioURI  == <<"g", "s", ":", "/", "/", "b", "/", "c", "l", "i", "p", ".", "m", "p", "3">>

\* what VideoFileClip and write_audiofile may do
ExtractOutcomes == {"open fails", "no audio track", "write fails",
                    "write fails, partial file", "written"}

\* lines 44-54: the clip's state when extraer_audio returns through except:
\* video.close() at line 49 is skipped
CloseOnError(outcome) == IF outcome = "open fails" THEN "unopened" ELSE "open"

\* line 146 and lines 37-54, then lines 147-148
extraer_audio ==
    /\ pc = "extraer_audio"
    /\ \E outcome \in ExtractOutcomes :
          IF outcome = "written"
          THEN /\ video' = "closed"
               /\ audioOnDisk' = TRUE
               /\ audio_file' = AudioPath
               /\ Emit(<<"1. Extrayendo audio", "-> Audio guardado">>)
          ELSE /\ video' = CloseOnError(outcome)
               /\ audioOnDisk' = (audioOnDisk \/ outcome = "write fails, partial file")
               /\ audio_file' = None
               /\ Emit(<<"1. Extrayendo audio", "-> Error al extraer el audio">>)
    /\ pc' = ReturnIfNot(audio_file', "subir_a_gcs")
    /\ UNCHANGED <<envVars, confVars, argv, videoOnDisk, outputsDir, txtFile,
                   gcs_uri, texto_transcrito, operation, response, bucket, exc,
                   exitStatus>>

\* what storage.Client and upload_from_filename may do
UploadOutcomes == {"client fails", "upload fails", "uploaded"}

\* line 151 and lines 56-75, then lines 152-153
subir_a_gcs ==
    /\ pc = "subir_a_gcs"
    /\ \E outcome \in UploadOutcomes :
          IF outcome = "uploaded"
          THEN /\ bucket' = TRUE
               /\ gcs_uri' = AudioURI
               /\ Emit(<<"2. Subiendo archivo", "-> Archivo subido">>)
          ELSE /\ bucket' = bucket
               /\ gcs_uri' = None
               /\ Emit(<<"2. Subiendo archivo", "-> Error al subir a GCS">>)
    /\ pc' = ReturnIfNot(gcs_uri', "transcribir_audio_largo")
    /\ UNCHANGED <<envVars, confVars, argv, diskVars, video, audio_file,
                   texto_transcrito, operation, response, exc, exitStatus>>

\* transcripts, result segments (each the list of its alternatives' transcripts)
\* and the responses of the recognition job
Transcripts == {<<>>, <<"a">>}
Segments    == UNION {[1..n -> Transcripts] : n \in 0..MaxAlternatives}
Responses   == UNION {[1..n -> Segments] : n \in 0..MaxSegments}

\* a faulty variant of TopAlternative: the last alternative instead of the first
TopAlternative_last(result) == result[Len(result)]

\* line 108: result.alternatives[0].transcript
TopAlternative(result) == result[1]

\* line 108: alternatives[0] raises IndexError on a segment with no alternative
ReadRaises(results) == \E i \in 1..Len(results) : Len(results[i]) = 0

\* lines 106-108: the loop over response.results
RECURSIVE Transcription(_)
Transcription(results) ==
    IF results = <<>>
    THEN <<>>
    ELSE TopAlternative(Head(results)) \o <<"\n">> \o Transcription(Tail(results))

\* the calls of transcribir_audio_largo that may raise before the try block
\* (lines 85-96) and inside it (lines 100, 104)
RaisesBeforeTry == {"speech.SpeechClient", "speech.RecognitionAudio",
                    "speech.RecognitionConfig"}
RaisesInTry     == {"long_running_recognize", "operation.result timeout"}

\* line 156 and lines 77-116, then lines 157-158
transcribir_audio_largo ==
    /\ pc = "transcribir_audio_largo"
    /\ \/ \E site \in RaisesBeforeTry :
             /\ exc' = site
             /\ pc' = "raised"
             /\ Emit(<<"3. Iniciando transcripcion">>)
             /\ UNCHANGED <<texto_transcrito, operation, response>>
       \/ \E site \in RaisesInTry :
             /\ operation' = IF site = "long_running_recognize"
                              THEN "rejected" ELSE "timed out"
             /\ response' = response
             /\ texto_transcrito' = None
             /\ pc' = ReturnIfNot(texto_transcrito', "guardar_transcripcion")
             /\ Emit(IF site = "long_running_recognize"
                      THEN <<"3. Iniciando transcripcion",
                             "-> Error durante la transcripcion">>
                      ELSE <<"3. Iniciando transcripcion", "-> Esperando",
                             "-> Error durante la transcripcion">>)
             /\ UNCHANGED exc
       \/ \E results \in Responses :
             /\ operation' = "completed"
             /\ response' = results
             /\ texto_transcrito' =
                   IF ReadRaises(results) THEN None ELSE Transcription(results)
             /\ pc' = ReturnIfNot(texto_transcrito', "guardar_transcripcion")
             /\ Emit(IF ReadRaises(results)
                      THEN <<"3. Iniciando transcripcion", "-> Esperando",
                             "-> Error durante la transcripcion">>
                      ELSE <<"3. Iniciando transcripcion", "-> Esperando",
                             "-> Transcripcion completada">>)
             /\ UNCHANGED exc
    /\ UNCHANGED <<envVars, confVars, argv, diskVars, video, audio_file, gcs_uri,
                   bucket, exitStatus>>

\* what open(txt_path, "w") and f.write may do
SaveOutcomes == {"open fails", "write fails", "written"}

\* a faulty variant of AfterSave: a failed write makes main return early
AfterSave_surfaced(outcome) == IF outcome = "written" THEN "os.remove" ELSE "returned"

\* lines 130-131 and 161-164: the except clause swallows the error and main goes on
AfterSave(outcome) == "os.remove"

\* line 161 and lines 118-131
guardar_transcripcion ==
    /\ pc = "guardar_transcripcion"
    /\ \E outcome \in SaveOutcomes :
          /\ txtFile' = CASE outcome = "written"     -> texto_transcrito
                          [] outcome = "write fails" -> <<>>
                          [] outcome = "open fails"  -> txtFile
          /\ Emit(IF outcome = "written"
                   THEN <<"4. Guardando transcripcion", "-> Archivo de texto guardado">>
                   ELSE <<"4. Guardando transcripcion", "-> Error al guardar el archivo">>)
          /\ pc' = AfterSave(outcome)
    /\ UNCHANGED <<envVars, confVars, argv, videoOnDisk, outputsDir, audioOnDisk,
                   mainVars, exc, exitStatus>>

\* a faulty variant of Removed: the completion message is printed although the file stays
Removed_ignored(fails) == [onDisk |-> audioOnDisk, raised |-> FALSE]

\* line 164: os.remove(audio_file) deletes the file or raises OSError
Removed(fails) == [onDisk |-> IF fails THEN audioOnDisk ELSE FALSE, raised |-> fails]

\* lines 164-165
os_remove ==
    /\ pc = "os.remove"
    /\ \E fails \in BOOLEAN :
          LET r == Removed(fails) IN
          /\ audioOnDisk' = r.onDisk
          /\ IF r.raised
             THEN /\ exc' = "os.remove"
                  /\ pc' = "raised"
                  /\ UNCHANGED stdout
             ELSE /\ pc' = "returned"
                  /\ Emit(<<"Proceso completado">>)
                  /\ UNCHANGED exc
    /\ UNCHANGED <<envVars, confVars, argv, videoOnDisk, outputsDir, txtFile,
                   mainVars, exitStatus>>

Next ==
    \/ ReadSettingsLine
    \/ EndOfFile
    \/ ConfigCheck
    \/ ArgCheck
    \/ main
    \/ extraer_audio
    \/ subir_a_gcs
    \/ transcribir_audio_largo
    \/ guardar_transcripcion
    \/ os_remove
    \/ ProcessExit

Spec == Init /\ [][Next]_vars

(***************************************************************************)
(* Vocabulary of the properties.                                           *)
(***************************************************************************)
Printed(msg) == \E i \in 1..Len(stdout) : stdout[i] = msg

Banners == <<"1. Extrayendo audio", "2. Subiendo archivo",
             "3. Iniciando transcripcion", "4. Guardando transcripcion">>

IsBanner(msg) == \E i \in 1..Len(Banners) : Banners[i] = msg

\* the steps attempted so far, in the order of their attempts
StepsAttempted == SelectSeq(stdout, IsBanner)

IsPrefix(s, t) == Len(s) <= Len(t) /\ s = SubSeq(t, 1, Len(s))

ExtractionFailed    == Printed("-> Error al extraer el audio")
UploadFailed        == Printed("-> Error al subir a GCS")
SaveFailed          == Printed("-> Error al guardar el archivo")
SaveSucceeded       == Printed("-> Archivo de texto guardado")
CompletionPrinted   == Printed("Proceso completado")
ConfigErrorPrinted  == Printed("Error: Faltan variables")
UsagePrinted        == Printed("Uso:")

\* the exception sites inside main
MainSites == RaisesBeforeTry \cup {"os.remove"}

\* main has been called and has ended, by returning or by an exception
MainEnded ==
    \/ pc = "returned"
    \/ pc = "raised" /\ exc \in MainSites
    \/ pc = "exited" /\ (exitStatus = <<0>> \/ exc \in MainSites)

\* the transcription step has been attempted and control has left it
TranscriptionLeft ==
    Printed(Banners[3]) /\ pc # "transcribir_audio_largo"

\* the recognition job completed and handed over its result segments
JobCompleted == operation = "completed"

\* the audio file extraction created is no longer on disk
AudioRemoved == Truthy(audio_file) /\ ~audioOnDisk

\* the text of a file as its lines, each ended by a newline
RECURSIVE SplitLines(_)
SplitLines(s) ==
    IF s = <<>>
    THEN <<>>
    ELSE LET ends == {i \in 1..Len(s) : s[i] = "\n"}
             stop == IF ends = {} THEN Len(s) + 1
                     ELSE CHOOSE i \in ends : \A j \in ends : i <= j
         IN  <<SubSeq(s, 1, stop - 1)>> \o SplitLines(SubSeq(s, stop + 1, Len(s)))

\* text is one line per segment: segment i's first alternative, in order
OneLinePerSegment(text, results) ==
    /\ text # None
    /\ Len(SplitLines(text)) = Len(results)
    /\ \A i \in 1..Len(results) :
          /\ Len(results[i]) >= 1
          /\ SplitLines(text)[i] = results[i][1]
    /\ text = <<>> \/ text[Len(text)] = "\n"

(***************************************************************************)
(* C1: in every run of main the steps are attempted at most once each and  *)
(* in the order extract, upload, transcribe, save; a step is attempted     *)
(* only if the video path exists and every earlier step returned a         *)
(* non-empty result; after a failed extraction there is no upload and no   *)
(* transcript file, after a failed upload no transcription.                *)
(***************************************************************************)
C1_StepsInOrder ==
    /\ IsPrefix(StepsAttempted, Banners)
    /\ Printed(Banners[1]) => videoOnDisk /\ Len(argv) >= 2
    /\ Printed(Banners[2]) => Truthy(audio_file)
    /\ Printed(Banners[3]) => Truthy(audio_file) /\ Truthy(gcs_uri)
    /\ Printed(Banners[4]) =>
          Truthy(audio_file) /\ Truthy(gcs_uri) /\ Truthy(texto_transcrito)
    /\ ExtractionFailed =>
          ~Printed(Banners[2]) /\ ~bucket /\ gcs_uri = None /\ txtFile = NoFile
    /\ UploadFailed => ~Printed(Banners[3]) /\ operation = "none" /\ txtFile = NoFile

\* a run that ended after a failed extraction
C1_Witness ==
    /\ pc = "exited" /\ exitStatus = <<0>>
    /\ ExtractionFailed
    /\ StepsAttempted = <<Banners[1]>>

(***************************************************************************)
(* C2: any error raised anywhere in transcribir_audio_largo (client        *)
(* creation, request construction, submission, waiting, reading the        *)
(* results) is caught in the step and reaches main as a null result: the   *)
(* run halts normally, no transcript file is written and no exception      *)
(* leaves main.                                                            *)
(***************************************************************************)
TranscriptionErred == operation = "completed" => ReadRaises(response)

C2_ErrorsCaught ==
    (TranscriptionLeft /\ TranscriptionErred) =>
        /\ exc = NoExc
        /\ texto_transcrito = None
        /\ pc \in {"returned", "exited"}
        /\ txtFile = NoFile
        /\ exitStatus \in {<<>>, <<0>>}

(***************************************************************************)
(* C3 as stated: at the end of any run of main the audio file has been     *)
(* removed if and only if extraction, upload and transcription all         *)
(* returned non-empty results and the save step was run; a run that stops  *)
(* at a failed upload or transcription leaves the audio file on disk and   *)
(* prints no completion message.                                           *)
(***************************************************************************)
FullSuccess ==
    /\ Truthy(audio_file) /\ Truthy(gcs_uri) /\ Truthy(texto_transcrito)
    /\ Printed(Banners[4])

StoppedAfterExtraction ==
    MainEnded /\ Truthy(audio_file) /\ ~Printed(Banners[4])

C3_DeletedIffSuccess ==
    MainEnded =>
        /\ AudioRemoved <=> FullSuccess
        /\ StoppedAfterExtraction => audioOnDisk /\ ~CompletionPrinted

(***************************************************************************)
(* C3 as amended: at the end of any run of main the audio file has been    *)
(* removed if and only if extraction, upload and transcription all         *)
(* returned non-empty results, the save step was run and os.remove did not *)
(* raise; the completion message is printed exactly then; a run that       *)
(* stops at a failed upload or transcription leaves the audio file on      *)
(* disk and prints no completion message.                                  *)
(***************************************************************************)
C3_DeletedIffSuccessAndRemoved ==
    MainEnded =>
        /\ AudioRemoved <=> (FullSuccess /\ exc # "os.remove")
        /\ CompletionPrinted <=> AudioRemoved
        /\ StoppedAfterExtraction => audioOnDisk /\ ~CompletionPrinted

\* full success whose deletion raised: the audio file stays on disk
C3_Witness ==
    /\ MainEnded /\ FullSuccess
    /\ exc = "os.remove" /\ audioOnDisk /\ ~CompletionPrinted

(***************************************************************************)
(* C4 as stated: a failed write of the transcript is not surfaced; after   *)
(* guardar_transcripcion returns main always deletes the audio file and    *)
(* prints the completion message, whether or not the transcript was        *)
(* written.                                                                *)
(***************************************************************************)
C4_AlwaysDeletes ==
    (Printed(Banners[4]) /\ MainEnded) => ~audioOnDisk /\ CompletionPrinted

(***************************************************************************)
(* C4 as amended: a failed write of the transcript is not surfaced; after  *)
(* guardar_transcripcion returns main always calls os.remove, whether or   *)
(* not the transcript was written, and unless os.remove itself raises the  *)
(* audio file is deleted and the completion message is printed.            *)
(***************************************************************************)
C4_AlwaysTriesToDelete ==
    Printed(Banners[4]) =>
        /\ pc \in {"os.remove", "returned", "raised", "exited"}
        /\ exc \in {NoExc, "os.remove"}
        /\ (MainEnded /\ exc = NoExc) => ~audioOnDisk /\ CompletionPrinted
        /\ (MainEnded /\ exc = "os.remove") => audioOnDisk /\ ~CompletionPrinted

\* reported success with neither the audio file nor a transcript on disk
C4_Witness ==
    /\ pc = "exited" /\ exitStatus = <<0>>
    /\ SaveFailed /\ CompletionPrinted
    /\ ~audioOnDisk /\ txtFile = NoFile

(***************************************************************************)
(* C5: the process exits with a non-zero status only at the two            *)
(* pre-flight checks (missing configuration, missing argument); every      *)
(* other failure ends with main returning and exit status 0.               *)
(***************************************************************************)
C5_NonZeroOnlyPreflight ==
    /\ (pc = "exited" /\ (ConfigErrorPrinted \/ UsagePrinted)) => exitStatus = <<1>>
    /\ (pc = "exited" /\ MainEnded) => exitStatus = <<0>> /\ exc = NoExc

(***************************************************************************)
(* C6: load_dotenv never overwrites a variable already present in the      *)
(* environment: no step of the process changes or removes a variable       *)
(* that is set, so the settings file only adds variables.                  *)
(***************************************************************************)
C6_NeverOverwrites ==
    [][\A k \in DOMAIN environ : k \in DOMAIN environ' /\ environ'[k] = environ[k]]_vars

\* a line that assigns another value to a variable set before it was read
C6_Witness ==
    /\ lineno = 1
    /\ IsAssignment(strip(line, Whitespace))
    /\ ParseKey(strip(line, Whitespace)) \in DOMAIN environ
    /\ environ[ParseKey(strip(line, Whitespace))] # ParseValue(strip(line, Whitespace))
    /\ ParseValue(strip(line, Whitespace)) # <<>>

(***************************************************************************)
(* C7 as stated: after the settings file is loaded the process terminates  *)
(* at the configuration check, with a diagnostic and status 1, exactly     *)
(* when one of the three settings is absent from the environment, and      *)
(* then nothing else has been done.                                        *)
(***************************************************************************)
Required == {KeyProject, KeyBucket, KeyLanguage}

ConfigChecked == pc \notin {"load_dotenv", "config"} /\ exc # "os.environ.setdefault"

NothingElseDone ==
    /\ pc = "exited" /\ exitStatus = <<1>>
    /\ stdout = <<"Error: Faltan variables">>
    /\ outputsDir # "created"
    /\ video = "unopened" /\ ~audioOnDisk /\ ~bucket /\ txtFile = NoFile
    /\ audio_file = None /\ gcs_uri = None /\ texto_transcrito = None

C7_ExitIffAbsent ==
    ConfigChecked =>
        /\ ConfigErrorPrinted <=> (\E k \in Required : k \notin DOMAIN environ)
        /\ ConfigErrorPrinted => NothingElseDone

(***************************************************************************)
(* C7 as amended: the process terminates at the configuration check        *)
(* exactly when one of the three settings is absent from the environment   *)
(* or set to the empty string, and then nothing else has been done.        *)
(***************************************************************************)
C7_ExitIffAbsentOrEmpty ==
    ConfigChecked =>
        /\ ConfigErrorPrinted <=>
              (\E k \in Required : k \notin DOMAIN environ \/ environ[k] = <<>>)
        /\ ConfigErrorPrinted => NothingElseDone

\* all three settings are present, one is empty, and the check exits
C7_Witness ==
    /\ ConfigErrorPrinted /\ pc = "exited"
    /\ \A k \in Required : k \in DOMAIN environ
    /\ environ[KeyLanguage] = <<>>

(***************************************************************************)
(* C8 as stated: when the recognition job completes without error the      *)
(* text returned is, for every sequence of result segments, each           *)
(* segment's first alternative followed by a newline, in service order,    *)
(* and that text is what the save step writes to the transcript file.      *)
(***************************************************************************)
C8_TextIsTopAlternatives ==
    /\ (TranscriptionLeft /\ JobCompleted) =>
          OneLinePerSegment(texto_transcrito, response)
    /\ SaveSucceeded => txtFile = texto_transcrito

(***************************************************************************)
(* C8 as amended: when the recognition job completes without error and     *)
(* every result segment carries at least one alternative, the text         *)
(* returned is each segment's first alternative followed by a newline, in  *)
(* service order; a segment with no alternative makes the step return a    *)
(* null result; the text returned is what a successful save writes.        *)
(***************************************************************************)
C8_TextIsTopAlternativesWhenPresent ==
    /\ (TranscriptionLeft /\ JobCompleted) =>
          IF ReadRaises(response)
          THEN texto_transcrito = None
          ELSE OneLinePerSegment(texto_transcrito, response)
    /\ SaveSucceeded =>
          txtFile = texto_transcrito /\ OneLinePerSegment(txtFile, response)

\* two segments whose first and second alternatives differ, saved
C8_Witness ==
    /\ SaveSucceeded
    /\ JobCompleted
    /\ Len(response) = 2
    /\ response[1] = << <<"a">>, <<>> >>
    /\ response[2] = << <<>>, <<"a">> >>
    /\ txtFile = <<"a", "\n", "\n">>

(***************************************************************************)
(* C9 as stated: a job that completes with zero segments is handled like   *)
(* a transcription failure (empty string returned, main returns, no        *)
(* transcript, audio kept, no completion message); a job returning at      *)
(* least one segment always proceeds to the save step.                     *)
(***************************************************************************)
HandledAsFailure ==
    /\ pc \in {"returned", "exited"}
    /\ ~Printed(Banners[4])
    /\ txtFile = NoFile
    /\ audioOnDisk
    /\ ~CompletionPrinted

ProceededToSave ==
    \/ pc = "guardar_transcripcion"
    \/ Printed(Banners[4])

C9_ZeroSegmentsFail ==
    (TranscriptionLeft /\ JobCompleted) =>
        /\ Len(response) = 0 => texto_transcrito = <<>> /\ HandledAsFailure
        /\ Len(response) >= 1 => ProceededToSave

(***************************************************************************)
(* C9 as amended: a job that completes with zero segments is handled like  *)
(* a transcription failure; a job returning at least one segment, each     *)
(* with at least one alternative, always proceeds to the save step, even   *)
(* when every transcript is empty; a segment with no alternative is        *)
(* handled like a transcription failure.                                   *)
(***************************************************************************)
C9_ZeroSegmentsFailOthersSave ==
    (TranscriptionLeft /\ JobCompleted) =>
        /\ Len(response) = 0 => texto_transcrito = <<>> /\ HandledAsFailure
        /\ (Len(response) >= 1 /\ ~ReadRaises(response)) => ProceededToSave
        /\ ReadRaises(response) => texto_transcrito = None /\ HandledAsFailure

C9_Witness ==
    /\ JobCompleted
    /\ response = <<>>
    /\ texto_transcrito = <<>>
    /\ pc = "exited" /\ exitStatus = <<0>>

(***************************************************************************)
(* C10: whenever extraer_audio opened the video, the clip is closed before *)
(* extraer_audio returns, on success and on a failed write alike.          *)
(***************************************************************************)
C10_ClipClosed ==
    (Printed(Banners[1]) /\ video # "unopened") => video = "closed"
====
